---- MODULE Spec2Model ----
(***************************************************************************)
(* Model of the Indian market price advisor (src/main.py): the commodity   *)
(* matcher, the record fetch with its single-slot cache, the price parser, *)
(* the aggregator, the trend predictor and the sequential flow of main.    *)
(*                                                                         *)
(* Text is a sequence of one-character strings, so that strip, lower,      *)
(* split, startswith, title and float parsing are computed, not assumed.   *)
(* A Python value is a record [t, s, n]: None, a str or a number.          *)
(* A number is an exact rational <<numerator, denominator>> where the code *)
(* divides; IEEE nan and inf are outside the modelled numbers.             *)
(***************************************************************************)
EXTENDS Integers, Sequences, FiniteSets, TLC

VARIABLES pc, args, ret, cache, lastLive, log

vars == <<pc, args, ret, cache, lastLive, log>>

(* ------------------------------ bounds -------------------------------- *)

\* longest text drawn for the matcher's query and field
MaxLen == 3
\* longest record batch an adapter response or the cache holds
MaxBatch == 2
\* longest record list handed to the parser, aggregator and predictor
MaxRecs == 3

(* --------------------------- Python values ---------------------------- *)

None == [t |-> "none", s |-> <<>>, n |-> 0]
Str(x) == [t |-> "str", s |-> x, n |-> 0]
Num(k) == [t |-> "num", s |-> <<>>, n |-> k]

\* truth value of a Python object: None, "" and 0 are falsy
Truthy(v) ==
  CASE v.t = "none" -> FALSE
    [] v.t = "str" -> v.s # <<>>
    [] OTHER -> v.n # 0

\* Python's `a or b`
Or(a, b) == IF Truthy(a) THEN a ELSE b

\* dict.get(key): None when the key is absent
Get(rec, k) == IF k \in DOMAIN rec THEN rec[k] ELSE None

(* ------------------------------- text --------------------------------- *)

LowerLetters ==
  <<"a","b","c","d","e","f","g","h","i","j","k","l","m",
    "n","o","p","q","r","s","t","u","v","w","x","y","z">>
UpperLetters ==
  <<"A","B","C","D","E","F","G","H","I","J","K","L","M",
    "N","O","P","Q","R","S","T","U","V","W","X","Y","Z">>

IsUpper(c) == \E i \in 1..26 : UpperLetters[i] = c
IsLower(c) == \E i \in 1..26 : LowerLetters[i] = c
IsLetter(c) == IsUpper(c) \/ IsLower(c)
IsSpace(c) == c = " "

LowerChar(c) ==
  IF IsUpper(c) THEN LowerLetters[CHOOSE i \in 1..26 : UpperLetters[i] = c] ELSE c
UpperChar(c) ==
  IF IsLower(c) THEN UpperLetters[CHOOSE i \in 1..26 : LowerLetters[i] = c] ELSE c

\* str.lower()
Lower(s) == [i \in 1..Len(s) |-> LowerChar(s[i])]

\* str.title(): a letter after a non-letter is upper-cased, any other lower-cased
Title(s) ==
  [i \in 1..Len(s) |->
     IF i = 1 \/ ~IsLetter(s[i-1]) THEN UpperChar(s[i]) ELSE LowerChar(s[i])]

RECURSIVE LStrip(_)
LStrip(s) == IF s # <<>> /\ IsSpace(Head(s)) THEN LStrip(Tail(s)) ELSE s

RECURSIVE RStrip(_)
RStrip(s) ==
  IF s # <<>> /\ IsSpace(s[Len(s)]) THEN RStrip(SubSeq(s, 1, Len(s)-1)) ELSE s

\* str.strip()
Strip(s) == RStrip(LStrip(s))

\* str.split(): the maximal runs of non-whitespace, in order
RECURSIVE SplitFrom(_, _, _)
SplitFrom(s, cur, acc) ==
  IF s = <<>> THEN (IF cur = <<>> THEN acc ELSE Append(acc, cur))
  ELSE IF IsSpace(Head(s))
       THEN SplitFrom(Tail(s), <<>>, IF cur = <<>> THEN acc ELSE Append(acc, cur))
       ELSE SplitFrom(Tail(s), Append(cur, Head(s)), acc)
Split(s) == SplitFrom(s, <<>>, <<>>)

\* x in list
InList(x, l) == \E i \in 1..Len(l) : l[i] = x

\* str.startswith(prefix)
StartsWith(s, p) == Len(p) <= Len(s) /\ SubSeq(s, 1, Len(p)) = p

\* str.find(sub) != -1
Contains(s, sub) ==
  \E i \in 1..(Len(s) - Len(sub) + 1) : SubSeq(s, i, i + Len(sub) - 1) = sub

(* ----------------------------- cache store ---------------------------- *)

\* save_cache(records): the file's records are replaced wholesale
save_cache(records) == records

\* load_cache(): the records of the file, [] when it is absent
load_cache(c) == c

(* ------------------------- commodity matching ------------------------- *)

\* (r.get("commodity") or r.get("commodity_name") or "").strip().lower()
commodity_field(r) ==
  Lower(Strip(Or(Or(Get(r, "commodity"), Get(r, "commodity_name")), Str(<<>>)).s))

\* the match of the live path: lines 92-95 of smart_fetch_records
\* variant: the match without the startswith test
live_match_NoPrefix(item_clean, r) ==
  LET com == commodity_field(r)
  IN  com # <<>> /\ (item_clean = com \/ InList(item_clean, Split(com)))
live_match(item_clean, r) ==
  LET com == commodity_field(r)
  IN  com # <<>> /\
      (item_clean = com \/ InList(item_clean, Split(com)) \/ StartsWith(com, item_clean))

\* the match of the cache path: lines 77-81 of safe_load_cached_for_commodity
cache_match(item_l, r) ==
  LET commodity_field_ == commodity_field(r)
  IN  commodity_field_ # <<>> /\
      (item_l = commodity_field_ \/ InList(item_l, Split(commodity_field_))
         \/ StartsWith(commodity_field_, item_l))

(* ---------------------------- record fetch ---------------------------- *)

\* An adapter outcome: ok = FALSE is any exception of the request (network,
\* HTTP status, JSON); ok = TRUE carries the "records" array of the body.
Failure == [ok |-> FALSE, records |-> <<>>]
Response(recs) == [ok |-> TRUE, records |-> recs]

\* fetch_mandi_records_from_api: the records returned and the cache afterwards
\* variant: save_cache called without the `if records:` guard
fetch_mandi_records_from_api_SaveAlways(outcome, c) ==
  IF outcome.ok
  THEN [records |-> outcome.records, cache |-> save_cache(outcome.records), wrote |-> TRUE]
  ELSE [records |-> <<>>, cache |-> c, wrote |-> FALSE]
fetch_mandi_records_from_api(outcome, c) ==
  IF outcome.ok
  THEN LET records == outcome.records
       IN  IF records # <<>>
           THEN [records |-> records, cache |-> save_cache(records), wrote |-> TRUE]
           ELSE [records |-> records, cache |-> c, wrote |-> FALSE]
  ELSE [records |-> <<>>, cache |-> c, wrote |-> FALSE]

\* safe_load_cached_for_commodity(item)
\* variant: the cached records returned without the match
safe_load_cached_for_commodity_Unfiltered(item, c) == load_cache(c)
safe_load_cached_for_commodity(item, c) ==
  LET cached == load_cache(c)
      item_l == Lower(item)
  IN  IF cached = <<>> THEN <<>>
      ELSE SelectSeq(cached, LAMBDA r : cache_match(item_l, r))

\* smart_fetch_records(item): the result, the cache afterwards, whether the
\* cache was written and whether it was read
\* variant: without the `if api_records: return []` guard
smart_fetch_records_AlwaysFallback(item, outcome, c) ==
  LET item_clean == Lower(Strip(item))
      api == fetch_mandi_records_from_api(outcome, c)
      valid == SelectSeq(api.records, LAMBDA r : live_match(item_clean, r))
  IN  IF valid # <<>>
      THEN [result |-> valid, cache |-> api.cache, wrote |-> api.wrote, cacheRead |-> FALSE]
      ELSE [result |-> safe_load_cached_for_commodity(item_clean, api.cache),
            cache |-> api.cache, wrote |-> api.wrote, cacheRead |-> TRUE]
smart_fetch_records(item, outcome, c) ==
  LET item_clean == Lower(Strip(item))
      api == fetch_mandi_records_from_api(outcome, c)
      api_records == api.records
      valid == SelectSeq(api_records, LAMBDA r : live_match(item_clean, r))
  IN  IF valid # <<>>
      THEN [result |-> valid, cache |-> api.cache, wrote |-> api.wrote, cacheRead |-> FALSE]
      ELSE IF api_records # <<>>
      THEN [result |-> <<>>, cache |-> api.cache, wrote |-> api.wrote, cacheRead |-> FALSE]
      ELSE [result |-> safe_load_cached_for_commodity(item_clean, api.cache),
            cache |-> api.cache, wrote |-> api.wrote, cacheRead |-> TRUE]

(* ------------------------------ numbers ------------------------------- *)

RECURSIVE Gcd(_, _)
Gcd(a, b) == IF b = 0 THEN a ELSE Gcd(b, a % b)
Abs(n) == IF n < 0 THEN -n ELSE n

\* a rational <<numerator, denominator>> in lowest terms, denominator > 0
Norm(n, d) ==
  LET g == Gcd(Abs(n), Abs(d))
      sg == IF d < 0 THEN -1 ELSE 1
  IN  <<sg * (n \div g), sg * (d \div g)>>
Rat(n) == <<n, 1>>
RAdd(a, b) == Norm(a[1] * b[2] + b[1] * a[2], a[2] * b[2])
RSub(a, b) == Norm(a[1] * b[2] - b[1] * a[2], a[2] * b[2])
RMul(a, b) == Norm(a[1] * b[1], a[2] * b[2])
RDiv(a, b) == Norm(a[1] * b[2], a[2] * b[1])
REq(a, b) == a[1] * b[2] = b[1] * a[2]
RLe(a, b) == a[1] * b[2] <= b[1] * a[2]
RLt(a, b) == a[1] * b[2] < b[1] * a[2]
RMax(a, b) == IF RLt(a, b) THEN b ELSE a
RAbs(a) == IF a[1] < 0 THEN <<-a[1], a[2]>> ELSE a

RECURSIVE Sum(_)
Sum(xs) == IF xs = <<>> THEN 0 ELSE Head(xs) + Sum(Tail(xs))

RECURSIVE RSum(_)
RSum(rs) == IF rs = <<>> THEN Rat(0) ELSE RAdd(Head(rs), RSum(Tail(rs)))

RECURSIVE MinOf(_)
MinOf(xs) ==
  IF Len(xs) = 1 THEN xs[1]
  ELSE LET m == MinOf(Tail(xs)) IN IF m < Head(xs) THEN m ELSE Head(xs)

RECURSIVE MaxOf(_)
MaxOf(xs) ==
  IF Len(xs) = 1 THEN xs[1]
  ELSE LET m == MaxOf(Tail(xs)) IN IF m > Head(xs) THEN m ELSE Head(xs)

\* statistics.mean of numbers
mean(xs) == Norm(Sum(xs), Len(xs))

\* statistics.mean of rationals
rmean(rs) == RDiv(RSum(rs), Rat(Len(rs)))

\* the non-negative square root of a rational, kept symbolic
Sqrt(r) == [sqrt_of |-> r]
IsZero(x) == x.sqrt_of[1] = 0

\* statistics.stdev: sqrt(sum((x - mean)^2) / (n - 1)), for n >= 2
\* variant: the squares summed without subtracting the mean
stdev_RootMeanSquare(xs) ==
  Sqrt(Norm(Sum([i \in 1..Len(xs) |-> xs[i] * xs[i]]), Len(xs) - 1))
stdev(xs) ==
  LET n == Len(xs)
      c == mean(xs)
      ss == RSum([i \in 1..n |-> RMul(RSub(Rat(xs[i]), c), RSub(Rat(xs[i]), c))])
  IN  Sqrt(RDiv(ss, Rat(n - 1)))

Digits == <<"0","1","2","3","4","5","6","7","8","9">>
IsDigit(c) == \E i \in 1..10 : Digits[i] = c
DigitVal(c) == (CHOOSE i \in 1..10 : Digits[i] = c) - 1

RECURSIVE DigitsVal(_)
DigitsVal(s) ==
  IF s = <<>> THEN 0 ELSE 10 * DigitsVal(SubSeq(s, 1, Len(s) - 1)) + DigitVal(s[Len(s)])

AllDigits(s) == s # <<>> /\ \A i \in 1..Len(s) : IsDigit(s[i])

\* float(text): surrounding whitespace, an optional sign, decimal digits;
\* anything else raises ValueError (fractions and exponents are not drawn)
ParseFloat(text) ==
  LET s == Strip(text)
      signed == s # <<>> /\ Head(s) \in {"-", "+"}
      body == IF signed THEN Tail(s) ELSE s
  IN  IF AllDigits(body)
      THEN [ok |-> TRUE, val |-> IF signed /\ Head(s) = "-" THEN -DigitsVal(body) ELSE DigitsVal(body)]
      ELSE [ok |-> FALSE, val |-> 0]

\* float(value) of a Python value
float(v) ==
  CASE v.t = "num" -> [ok |-> TRUE, val |-> v.n]
    [] v.t = "str" -> ParseFloat(v.s)
    [] OTHER -> [ok |-> FALSE, val |-> 0]

(* ---------------------------- price parser ---------------------------- *)

\* one iteration of the loop of parse_price_records: the PriceRecord appended,
\* or ok = FALSE on `continue` (no price, or an exception of strip or float)
parse_price_record(rec) ==
  LET commodity == Or(Or(Get(rec, "commodity"), Get(rec, "commodity_name")), Str(<<>>))
      modal == Or(Or(Get(rec, "modal_price"), Get(rec, "modalprice")), Str(<<>>))
      state == Or(Or(Get(rec, "state_name"), Get(rec, "state")), Str(<<>>))
      market == Or(Or(Get(rec, "market"), Get(rec, "market_name")), Str(<<>>))
      date == Or(Or(Or(Get(rec, "arrival_date"), Get(rec, "date")),
                    Get(rec, "date_of_arrival")), Str(<<>>))
      price == float(modal)
      raises == \/ commodity.t # "str"
                \/ ~price.ok
                \/ state.t # "str" \/ market.t # "str" \/ date.t # "str"
  IN  IF commodity.t = "str" /\ (modal.t = "none" \/ (modal.t = "str" /\ modal.s = <<>>))
      THEN [ok |-> FALSE]
      ELSE IF raises THEN [ok |-> FALSE]
      ELSE [ok |-> TRUE,
            rec |-> [commodity |-> Strip(commodity.s),
                     state |-> Strip(state.s),
                     market |-> Strip(market.s),
                     price |-> price.val,
                     date |-> Strip(date.s)]]

RECURSIVE parse_price_records(_)
parse_price_records(records) ==
  IF records = <<>> THEN <<>>
  ELSE LET p == parse_price_record(Head(records))
       IN  (IF p.ok THEN <<p.rec>> ELSE <<>>) \o parse_price_records(Tail(records))

(* ----------------------------- aggregator ----------------------------- *)

Unknown == <<"U","n","k","n","o","w","n">>

Prices(parsed) == [i \in 1..Len(parsed) |-> parsed[i].price]

\* st = p["state"] or "Unknown"
\* variant: the state used as the key without the "Unknown" default
state_key_Raw(st) == st
state_key(st) == IF st # <<>> THEN st ELSE Unknown

\* compute_state_aggregates(parsed): the per-state means and the stats dict
\* (the empty function when there is no price)
compute_state_aggregates(parsed) ==
  LET keys == {state_key(parsed[i].state) : i \in 1..Len(parsed)}
      vals(s) == Prices(SelectSeq(parsed, LAMBDA p : state_key(p.state) = s))
      state_avg == [s \in keys |-> mean(vals(s))]
      all_prices == Prices(parsed)
      stats == IF all_prices # <<>>
               THEN [min |-> MinOf(all_prices),
                     max |-> MaxOf(all_prices),
                     avg |-> mean(all_prices),
                     count |-> Len(all_prices),
                     stddev |-> IF Len(all_prices) > 1 THEN stdev(all_prices)
                                ELSE Sqrt(Rat(0))]
               ELSE <<>>
  IN  [state_avg |-> state_avg, stats |-> stats]

(* --------------------------- trend predictor -------------------------- *)

\* the formats tried, in order: "%Y-%m-%d", "%d-%m-%Y", "%Y/%m/%d"
DateFormats ==
  << <<"%Y","-","%m","-","%d">>, <<"%d","-","%m","-","%Y">>, <<"%Y","/","%m","/","%d">> >>

\* the digits a directive consumes: %Y four, %m and %d two when two follow, else one
FieldWidth(tok, text) ==
  IF tok = "%Y" THEN 4
  ELSE IF Len(text) >= 2 /\ IsDigit(text[1]) /\ IsDigit(text[2]) THEN 2 ELSE 1

\* datetime.strptime(text, fmt): the fields read, ok = FALSE on ValueError
RECURSIVE strptime(_, _, _)
strptime(text, fmt, got) ==
  IF fmt = <<>>
  THEN [ok |-> text = <<>> /\ got["%Y"] >= 1 /\ got["%m"] \in 1..12 /\ got["%d"] \in 1..31,
        y |-> got["%Y"], m |-> got["%m"], d |-> got["%d"]]
  ELSE LET tok == Head(fmt)
       IN  IF tok \in {"%Y", "%m", "%d"}
           THEN LET w == FieldWidth(tok, text)
                IN  IF Len(text) >= w /\ AllDigits(SubSeq(text, 1, w))
                    THEN strptime(SubSeq(text, w + 1, Len(text)), Tail(fmt),
                                  [got EXCEPT ![tok] = DigitsVal(SubSeq(text, 1, w))])
                    ELSE [ok |-> FALSE, y |-> 0, m |-> 0, d |-> 0]
           ELSE IF text # <<>> /\ Head(text) = tok
                THEN strptime(Tail(text), Tail(fmt), got)
                ELSE [ok |-> FALSE, y |-> 0, m |-> 0, d |-> 0]

NoFields == [k \in {"%Y", "%m", "%d"} |-> 0]

\* the loop over the formats on d[:10]: the calendar date of the first format
\* that parses, as a number ordered like the dates
\* variant: only the first format tried
parse_date_FirstFormatOnly(d) ==
  LET text == SubSeq(d, 1, IF Len(d) < 10 THEN Len(d) ELSE 10)
      r == strptime(text, DateFormats[1], NoFields)
  IN  [ok |-> r.ok, date |-> r.y * 10000 + r.m * 100 + r.d]
parse_date(d) ==
  LET text == SubSeq(d, 1, IF Len(d) < 10 THEN Len(d) ELSE 10)
      tries == [i \in 1..Len(DateFormats) |-> strptime(text, DateFormats[i], NoFields)]
  IN  IF \E i \in 1..Len(tries) : tries[i].ok
      THEN LET r == tries[CHOOSE i \in 1..Len(tries) :
                            tries[i].ok /\ \A j \in 1..(i-1) : ~tries[j].ok]
           IN  [ok |-> TRUE, date |-> r.y * 10000 + r.m * 100 + r.d]
      ELSE [ok |-> FALSE, date |-> 0]

RECURSIVE SortSet(_)
SortSet(S) ==
  IF S = {} THEN <<>>
  ELSE LET m == CHOOSE x \in S : \A y \in S : x <= y IN <<m>> \o SortSet(S \ {m})

\* s[-k:]
LastSlice(seq, k) ==
  IF k = 0 \/ k >= Len(seq) THEN seq ELSE SubSeq(seq, Len(seq) - k + 1, Len(seq))

NoPrediction == [kind |-> "none", via |-> "none", val |-> Rat(0)]
Prediction(via, v) == [kind |-> "value", via |-> via, val |-> RMax(v, Rat(0))]

\* the raw fallback: lines 177-183
raw_fallback(parsed, days_back) ==
  LET raw == Prices(parsed)
  IN  IF Len(raw) >= 2
      THEN LET raw_last == LastSlice(raw, IF Len(raw) < days_back THEN Len(raw) ELSE days_back)
               diffs == [i \in 1..(Len(raw_last) - 1) |-> raw_last[i+1] - raw_last[i]]
               avg_diff == IF diffs # <<>> THEN mean(diffs) ELSE Rat(0)
           IN  Prediction("raw", RAdd(Rat(raw_last[Len(raw_last)]), avg_diff))
      ELSE NoPrediction

\* lines 146-158: the (date, price) pairs of the records whose date parses
date_pairs(parsed) ==
  LET dated == SelectSeq(parsed, LAMBDA p : p.date # <<>> /\ parse_date(p.date).ok)
  IN  [i \in 1..Len(dated) |-> <<parse_date(dated[i].date).date, dated[i].price>>]

\* lines 160-163: one (date, mean price) item per date, ascending by date
day_items(pairs) ==
  LET days == SortSet({pairs[i][1] : i \in 1..Len(pairs)})
      vals(d) == LET of_day == SelectSeq(pairs, LAMBDA pr : pr[1] = d)
                 IN  [j \in 1..Len(of_day) |-> of_day[j][2]]
  IN  [i \in 1..Len(days) |-> <<days[i], mean(vals(days[i]))>>]

\* lines 166-175: the least-squares line over x = 0..n-1, taken at x = n
least_squares_next(ys) ==
  LET n == Len(ys)
      xs == [i \in 1..n |-> Rat(i - 1)]
      x_mean == rmean(xs)
      y_mean == rmean(ys)
      num == RSum([i \in 1..n |-> RMul(RSub(xs[i], x_mean), RSub(ys[i], y_mean))])
      den == RSum([i \in 1..n |-> RMul(RSub(xs[i], x_mean), RSub(xs[i], x_mean))])
      slope == IF den[1] # 0 THEN RDiv(num, den) ELSE Rat(0)
      intercept == RSub(y_mean, RMul(slope, x_mean))
  IN  RAdd(intercept, RMul(slope, Rat(n)))

\* simple_trend_predict(parsed, days_back)
\* variant: no fall-through to the raw fallback once a date parsed
simple_trend_predict_NoneBelowTwoBuckets(parsed, days_back) ==
  LET recent == LastSlice(day_items(date_pairs(parsed)), days_back)
  IN  IF date_pairs(parsed) # <<>>
      THEN IF Len(recent) >= 2
           THEN Prediction("ls", least_squares_next([i \in 1..Len(recent) |-> recent[i][2]]))
           ELSE NoPrediction
      ELSE raw_fallback(parsed, days_back)
simple_trend_predict(parsed, days_back) ==
  LET recent == LastSlice(day_items(date_pairs(parsed)), days_back)
  IN  IF date_pairs(parsed) # <<>> /\ Len(recent) >= 2
      THEN Prediction("ls", least_squares_next([i \in 1..Len(recent) |-> recent[i][2]]))
      ELSE raw_fallback(parsed, days_back)

(* -------------------------------- main -------------------------------- *)

VALID_STATES ==
  {<<"A","n","d","h","r","a"," ","P","r","a","d","e","s","h">>,
   <<"A","r","u","n","a","c","h","a","l"," ","P","r","a","d","e","s","h">>,
   <<"A","s","s","a","m">>,
   <<"B","i","h","a","r">>,
   <<"C","h","h","a","t","t","i","s","g","a","r","h">>,
   <<"D","e","l","h","i">>,
   <<"G","o","a">>,
   <<"G","u","j","a","r","a","t">>,
   <<"H","a","r","y","a","n","a">>,
   <<"H","i","m","a","c","h","a","l"," ","P","r","a","d","e","s","h">>,
   <<"J","a","m","m","u"," ","A","n","d"," ","K","a","s","h","m","i","r">>,
   <<"J","h","a","r","k","h","a","n","d">>,
   <<"K","a","r","n","a","t","a","k","a">>,
   <<"K","e","r","a","l","a">>,
   <<"M","a","d","h","y","a"," ","P","r","a","d","e","s","h">>,
   <<"M","a","h","a","r","a","s","h","t","r","a">>,
   <<"M","a","n","i","p","u","r">>,
   <<"M","e","g","h","a","l","a","y","a">>,
   <<"M","i","z","o","r","a","m">>,
   <<"N","a","g","a","l","a","n","d">>,
   <<"O","d","i","s","h","a">>,
   <<"P","u","n","j","a","b">>,
   <<"R","a","j","a","s","t","h","a","n">>,
   <<"S","i","k","k","i","m">>,
   <<"T","a","m","i","l"," ","N","a","d","u">>,
   <<"T","e","l","a","n","g","a","n","a">>,
   <<"T","r","i","p","u","r","a">>,
   <<"U","t","t","a","r"," ","P","r","a","d","e","s","h">>,
   <<"U","t","t","a","r","a","k","h","a","n","d">>,
   <<"W","e","s","t"," ","B","e","n","g","a","l">>}

\* the shortest item name accepted
MinItemLen == 3

\* the percentage from which a predicted change raises a price alert
AlertThreshold == 8

\* item validation: lines 233-239
item_ok(text) ==
  LET item == Strip(text)
  IN  item # <<>> /\ ~(Len(item) < MinItemLen)

\* state validation: lines 243-255 (get_close_matches only words the message)
state_ok(text) ==
  LET state == Strip(text)
      state_norm == Title(state)
  IN  state # <<>> /\ state_norm \in VALID_STATES

\* city validation: lines 258-261
\* variant: the city check left out
city_ok_AcceptsEmpty(text) == TRUE
city_ok(text) ==
  LET city == Strip(text)
  IN  city # <<>>

\* quantity validation: lines 265-276
qty_ok(text) ==
  LET qty_in == Strip(text)
      qty == ParseFloat(qty_in)
  IN  qty_in # <<>> /\ qty.ok /\ ~(qty.val <= 0)

\* fetch_weather(city): None (ok = FALSE) on an exception or a status other
\* than 200, else the snapshot with the description title-cased
fetch_weather(city, response) ==
  IF response.status # 200 THEN [ok |-> FALSE]
  ELSE [ok |-> TRUE, city |-> city, temp |-> response.temp,
        desc |-> Title(response.description), code |-> response.id]

\* check_weather_alerts(weather)
check_weather_alerts(weather) ==
  IF ~weather.ok THEN <<>>
  ELSE LET desc == Lower(weather.desc)
           code == weather.code
           temp == weather.temp
       IN  (IF Contains(desc, <<"r","a","i","n">>) \/ Contains(desc, <<"s","h","o","w","e","r">>)
            THEN <<"Rain expected">> ELSE <<>>)
           \o (IF Contains(desc, <<"t","h","u","n","d","e","r">>) \/ code \in {202, 212, 221}
               THEN <<"Thunderstorm risk">> ELSE <<>>)
           \o (IF temp >= 40 THEN <<"High temperature">> ELSE <<>>)
           \o (IF temp <= 2 THEN <<"Very low temperature">> ELSE <<>>)

\* the price alert of main: lines 340-347
price_alerts(predicted_quintal, overall_avg) ==
  IF predicted_quintal.kind = "value" /\ predicted_quintal.val[1] # 0 /\ overall_avg[1] # 0
  THEN LET change_pct ==
             RMul(RDiv(RSub(predicted_quintal.val, overall_avg), overall_avg), Rat(100))
       IN  IF ~RLt(RAbs(change_pct), Rat(AlertThreshold))
           THEN IF RLt(Rat(0), change_pct)
                THEN <<[dir |-> "RISE", pct |-> change_pct]>>
                ELSE <<[dir |-> "DROP", pct |-> RAbs(change_pct)]>>
           ELSE <<>>
  ELSE <<>>

(* ------------------------- the fetch machine -------------------------- *)

\* records an adapter response may carry: "Ab c" under commodity, " b" under
\* commodity_name, and a blank commodity that hides a commodity_name
RecABc == [commodity |-> Str(<<"A","b"," ","c">>)]
RecNameB == [commodity_name |-> Str(<<" ","b">>)]
RecBlank == [commodity |-> Str(<<" ">>), commodity_name |-> Str(<<"a","b">>)]
FetchBatchRecords == {RecABc, RecNameB, RecBlank}

\* items asked for: as main passes them, and one not yet normalised
FetchItems == {<<"a","b">>, <<"c">>, <<" ","B"," ">>}

\* Seq(S) bounded by n
RECURSIVE SeqsUpTo(_, _)
SeqsUpTo(S, n) ==
  IF n = 0 THEN {<<>>}
  ELSE LET shorter == SeqsUpTo(S, n - 1)
       IN  shorter \cup {Append(q, x) : q \in shorter, x \in S}

Batches == SeqsUpTo(FetchBatchRecords, MaxBatch)
Outcomes == {Failure} \cup {Response(b) : b \in Batches}

NoCall == [item |-> <<>>, outcome |-> Failure, cacheBefore |-> <<>>]
NoResult == [result |-> <<>>, cacheRead |-> FALSE, wrote |-> FALSE]

InitFetch ==
  /\ pc = "idle"
  /\ args = NoCall
  /\ ret = NoResult
  /\ cache = <<>>
  /\ lastLive = <<>>
  /\ log = <<>>

\* one call smart_fetch_records(item) against an adapter that answers `outcome`
Fetch(item, outcome) ==
  LET f == smart_fetch_records(item, outcome, cache)
  IN  /\ pc' = "fetched"
      /\ args' = [item |-> item, outcome |-> outcome, cacheBefore |-> cache]
      /\ ret' = [result |-> f.result, cacheRead |-> f.cacheRead, wrote |-> f.wrote]
      /\ cache' = f.cache
      /\ lastLive' = IF outcome.ok /\ outcome.records # <<>>
                     THEN outcome.records ELSE lastLive
      /\ UNCHANGED log

NextFetch == \E item \in FetchItems, outcome \in Outcomes : Fetch(item, outcome)

SpecFetch == InitFetch /\ [][NextFetch]_vars

(* ------------------------ the matcher machine ------------------------- *)

MatchChars == {"a", "b", "A", " "}
Texts == SeqsUpTo(MatchChars, MaxLen)
FieldKeys == {"commodity", "commodity_name"}

InitMatcher ==
  /\ pc = "ready"
  /\ args \in [item : Texts, field : Texts, key : FieldKeys]
  /\ ret = [live |-> FALSE, cached |-> FALSE]
  /\ cache = <<>>
  /\ lastLive = <<>>
  /\ log = <<>>

\* the item is matched against one record on the live path (the adapter
\* answers with the record) and on the cache path (the adapter fails and the
\* cache holds the record)
Match ==
  /\ pc = "ready"
  /\ LET r == [k \in {args.key} |-> Str(args.field)]
     IN  ret' = [live |-> smart_fetch_records(args.item, Response(<<r>>), <<>>).result # <<>>,
                 cached |-> smart_fetch_records(args.item, Failure, <<r>>).result # <<>>]
  /\ pc' = "done"
  /\ UNCHANGED <<args, cache, lastLive, log>>

NextMatcher == Match

SpecMatcher == InitMatcher /\ [][NextMatcher]_vars

(* ------------------------- the parser machine ------------------------- *)

\* longest record batch handed to the parser machine
MaxParse == 2

\* a key the record does not carry
Absent == [t |-> "absent", s |-> <<>>, n |-> 0]

\* the dict of the keys of f whose value is not Absent
Dict(f) == [k \in {x \in DOMAIN f : f[x] # Absent} |-> f[k]]

\* price values: no key, "", numeric and non-numeric text, the numbers 0 and 7
ModalPriceValues ==
  {Absent, Str(<<>>), Str(<<"0">>), Str(<<"7">>), Str(<<"x">>), Num(0), Num(7)}
ModalpriceValues == {Absent, Str(<<"4">>), Num(0)}
StateValues == {Absent, Str(<<" ","G","o","a">>)}
MarketValues == {Absent, Str(<<"m">>)}
DateValues == {Absent, Str(<<"d">>)}

ParseRecords ==
  {Dict([commodity |-> Str(<<"a","b">>), modal_price |-> a, modalprice |-> b,
         state |-> c, market |-> d, arrival_date |-> e]) :
     a \in ModalPriceValues, b \in ModalpriceValues, c \in StateValues,
     d \in MarketValues, e \in DateValues}

InitParse ==
  /\ pc = "ready"
  /\ args \in [records : SeqsUpTo(ParseRecords, MaxParse)]
  /\ ret = [parsed |-> <<>>]
  /\ cache = <<>>
  /\ lastLive = <<>>
  /\ log = <<>>

Parse ==
  /\ pc = "ready"
  /\ ret' = [parsed |-> parse_price_records(args.records)]
  /\ pc' = "parsed"
  /\ UNCHANGED <<args, cache, lastLive, log>>

NextParse == Parse

SpecParse == InitParse /\ [][NextParse]_vars

\* a value that is there: not missing, not None, not the empty string
Present(v) == v.t = "num" \/ (v.t = "str" /\ v.s # <<>>)

\* the first present value among the keys, None when there is none
FirstPresent(rec, keys) ==
  IF \E i \in 1..Len(keys) : Present(Get(rec, keys[i]))
  THEN Get(rec, keys[CHOOSE i \in 1..Len(keys) :
                      /\ Present(Get(rec, keys[i]))
                      /\ \A j \in 1..(i-1) : ~Present(Get(rec, keys[j]))])
  ELSE None

\* the record's price, under modal_price or modalprice, parses as a number
HasNumericPrice(rec) ==
  LET v == FirstPresent(rec, <<"modal_price", "modalprice">>)
  IN  Present(v) /\ float(v).ok

TextOrEmpty(v) == IF v.t = "str" THEN Strip(v.s) ELSE <<>>

\* C4: a record is dropped iff its price is missing or non-numeric: the
\* records with a numeric price, the number 0 included, each yield one
\* PriceRecord, in input order, with a missing state, market or date stored
\* as the empty string
C4_DroppedIffPriceNotNumeric ==
  pc = "parsed" =>
    LET kept == SelectSeq(args.records, HasNumericPrice)
    IN  /\ Len(ret.parsed) = Len(kept)
        /\ \A i \in 1..Len(kept) :
             i <= Len(ret.parsed) =>
               /\ ret.parsed[i].state = TextOrEmpty(FirstPresent(kept[i], <<"state_name", "state">>))
               /\ ret.parsed[i].market = TextOrEmpty(FirstPresent(kept[i], <<"market", "market_name">>))
               /\ ret.parsed[i].date =
                    TextOrEmpty(FirstPresent(kept[i], <<"arrival_date", "date", "date_of_arrival">>))

(* ----------------------- the aggregator machine ----------------------- *)

Goa == <<"G","o","a">>
AggStates == {<<>>, Unknown, Goa}
AggPrices == {0, 2, 5}
AggRecords ==
  [commodity : {<<"a","b">>}, state : AggStates, market : {<<>>},
   price : AggPrices, date : {<<>>}]

InitAgg ==
  /\ pc = "ready"
  /\ args \in [parsed : SeqsUpTo(AggRecords, MaxRecs)]
  /\ ret = [state_avg |-> <<>>, stats |-> <<>>]
  /\ cache = <<>>
  /\ lastLive = <<>>
  /\ log = <<>>

Aggregate ==
  /\ pc = "ready"
  /\ ret' = compute_state_aggregates(args.parsed)
  /\ pc' = "aggregated"
  /\ UNCHANGED <<args, cache, lastLive, log>>

NextAgg == Aggregate

SpecAgg == InitAgg /\ [][NextAgg]_vars

RECURSIVE SumOver(_, _)
SumOver(I, f) ==
  IF I = {} THEN 0 ELSE LET i == CHOOSE x \in I : TRUE IN f[i] + SumOver(I \ {i}, f)

\* the state a record is grouped under
GroupOf(p) == IF p.state = <<>> THEN Unknown ELSE p.state

\* C7: for a non-empty list min <= avg <= max and count is the number of
\* records; for an empty list stats is empty; the per-state map has one key
\* per distinct state, the empty state under "Unknown", each value the mean
\* of that state's prices
C7_StatsAndStateMeans ==
  pc = "aggregated" =>
    LET parsed == args.parsed
        idx == 1..Len(parsed)
        price == [i \in idx |-> parsed[i].price]
    IN  /\ parsed = <<>> => DOMAIN ret.stats = {} /\ DOMAIN ret.state_avg = {}
        /\ parsed # <<>> =>
             /\ RLe(Rat(ret.stats.min), ret.stats.avg)
             /\ RLe(ret.stats.avg, Rat(ret.stats.max))
             /\ ret.stats.count = Len(parsed)
        /\ DOMAIN ret.state_avg = {GroupOf(parsed[i]) : i \in idx}
        /\ \A g \in DOMAIN ret.state_avg :
             LET I == {i \in idx : GroupOf(parsed[i]) = g}
             IN  REq(ret.state_avg[g], <<SumOver(I, price), Cardinality(I)>>)

\* records without a state and records of a named state, with differing prices
C7_Witness ==
  /\ pc = "aggregated"
  /\ Len(args.parsed) >= 3
  /\ DOMAIN ret.state_avg = {Unknown, Goa}
  /\ \E i \in 1..Len(args.parsed) : args.parsed[i].state = <<>>
  /\ ret.stats.min < ret.stats.max

\* C8 as stated: stddev is 0.0 exactly when count = 1
C8_StddevZeroIffSingle ==
  (pc = "aggregated" /\ args.parsed # <<>>) =>
    (IsZero(ret.stats.stddev) <=> ret.stats.count = 1)

\* C8 amended: stddev is 0.0 for a single record; for 2 or more records it is
\* 0.0 exactly when all prices are equal
C8_StddevZeroIffNoSpread ==
  (pc = "aggregated" /\ args.parsed # <<>>) =>
    (IsZero(ret.stats.stddev) <=>
       (Len(args.parsed) = 1 \/
        \A i, j \in 1..Len(args.parsed) : args.parsed[i].price = args.parsed[j].price))

\* two or more records of one non-zero price: no spread
C8_Witness ==
  /\ pc = "aggregated"
  /\ Len(args.parsed) >= 2
  /\ args.parsed[1].price # 0
  /\ IsZero(ret.stats.stddev)

(* ----------------------- the predictor machine ----------------------- *)

\* 5 January 2024 in two formats, 6 January with slashes, 7 January with a
\* time after the tenth character, a day-first date with slashes (no format
\* parses it) and no date
Jan5Iso == <<"2","0","2","4","-","0","1","-","0","5">>
Jan5DayFirst == <<"0","5","-","0","1","-","2","0","2","4">>
Jan6Slash == <<"2","0","2","4","/","0","1","/","0","6">>
Jan7Long == <<"2","0","2","4","-","0","1","-","0","7"," ","0","9">>
DayFirstSlash == <<"0","5","/","0","1","/","2","0","2","4">>
TrendDates == {<<>>, DayFirstSlash, Jan5Iso, Jan5DayFirst, Jan6Slash, Jan7Long}
TrendPrices == {1, 5}
TrendRecords ==
  [commodity : {<<"a","b">>}, state : {<<>>}, market : {<<>>},
   price : TrendPrices, date : TrendDates]

\* the window main passes
DefaultDaysBack == 7
DaysBack == {2, DefaultDaysBack}

InitTrend ==
  /\ pc = "ready"
  /\ args \in [parsed : SeqsUpTo(TrendRecords, MaxRecs), days_back : DaysBack]
  /\ ret = NoPrediction
  /\ cache = <<>>
  /\ lastLive = <<>>
  /\ log = <<>>

Predict ==
  /\ pc = "ready"
  /\ ret' = simple_trend_predict(args.parsed, args.days_back)
  /\ pc' = "predicted"
  /\ UNCHANGED <<args, cache, lastLive, log>>

NextTrend == Predict

SpecTrend == InitTrend /\ [][NextTrend]_vars

RECURSIVE RSumOver(_, _)
RSumOver(I, f) ==
  IF I = {} THEN Rat(0)
  ELSE LET i == CHOOSE x \in I : TRUE IN RAdd(f[i], RSumOver(I \ {i}, f))

\* What the claim speaks of, for a record list and a window: the indices of
\* the records with a parseable date, the date buckets that remain (the
\* latest days_back days), the least-squares line through the bucket means
\* (0, y0) .. (n-1, y(n-1)) taken at x = n, which is
\*   mean(y) + 3 / (n (n-1)) * sum((2 i - (n-1)) * yi),
\* and the last price plus the mean step of the last k = min(len, days_back)
\* prices, which is last + (last - first) / (k - 1)
TrendFacts(parsed, days_back) ==
  LET idx == 1..Len(parsed)
      day == [i \in idx |-> IF parsed[i].date # <<>> THEN parse_date(parsed[i].date)
                            ELSE [ok |-> FALSE, date |-> 0]]
      dated == {i \in idx : day[i].ok}
      price == [i \in idx |-> parsed[i].price]
      allDays == {day[i].date : i \in dated}
      buckets == {d \in allDays : Cardinality({e \in allDays : e > d}) < days_back}
      n == Cardinality(buckets)
      y == [d \in buckets |->
              LET I == {i \in dated : day[i].date = d}
              IN  Norm(SumOver(I, price), Cardinality(I))]
      w == [d \in buckets |->
              RMul(Rat(2 * Cardinality({e \in buckets : e < d}) - (n - 1)), y[d])]
      len == Len(parsed)
      k == IF len < days_back THEN len ELSE days_back
  IN  [dated |-> dated,
       days |-> allDays,
       buckets |-> n,
       ls |-> IF n >= 2
              THEN RAdd(RDiv(RSumOver(buckets, y), Rat(n)),
                        RMul(Norm(3, n * (n - 1)), RSumOver(buckets, w)))
              ELSE Rat(0),
       raw |-> IF len = 0 THEN Rat(0)
               ELSE IF k >= 2
               THEN RAdd(Rat(price[len]), Norm(price[len] - price[len - k + 1], k - 1))
               ELSE Rat(price[len])]

IsLeastSquares(r, facts) ==
  r.kind = "value" /\ r.via = "ls" /\ REq(r.val, RMax(facts.ls, Rat(0)))
IsRaw(r, facts) ==
  r.kind = "value" /\ r.via = "raw" /\ REq(r.val, RMax(facts.raw, Rat(0)))

\* C5 as stated: the raw fallback only when no record has a parseable date;
\* with a parseable date the least-squares extrapolation when at least 2
\* buckets remain, and none when fewer than 2 remain
C5_FallbackOnlyWithoutDates ==
  pc = "predicted" =>
    LET facts == TrendFacts(args.parsed, args.days_back)
    IN  /\ ret.via = "raw" => facts.dated = {}
        /\ facts.dated # {} =>
             IF facts.buckets >= 2 THEN IsLeastSquares(ret, facts) ELSE ret.kind = "none"

\* C5 amended: the least-squares extrapolation when at least 2 buckets
\* remain; otherwise (no parseable date, or fewer than 2 buckets) the raw
\* fallback when there are at least 2 records, and none only with fewer
\* than 2 records
C5_FallbackBelowTwoBuckets ==
  pc = "predicted" =>
    LET facts == TrendFacts(args.parsed, args.days_back)
    IN  IF facts.buckets >= 2 THEN IsLeastSquares(ret, facts)
        ELSE IF Len(args.parsed) >= 2 THEN IsRaw(ret, facts)
        ELSE ret.kind = "none"

\* several records that all carry the same date, written in two formats: the
\* raw fallback answers
C5_Witness ==
  /\ pc = "predicted"
  /\ Len(args.parsed) >= 2
  /\ \A i \in 1..Len(args.parsed) : args.parsed[i].date \in {Jan5Iso, Jan5DayFirst}
  /\ \E i \in 1..Len(args.parsed) : args.parsed[i].date = Jan5DayFirst
  /\ args.parsed[1].price # args.parsed[2].price
  /\ ret.via = "raw"

(* -------------------------- the run of main --------------------------- *)

ItemInputs == {<<>>, <<"a","b">>, <<" ","A","b","c">>}
StateInputs == {<<>>, <<"g","o","a">>, <<"G","a","o">>, <<" ","T","A","M","I","L"," ","n","a","d","u">>}
CityInputs == {<<" ">>, <<"p","u","n","e">>}
QtyInputs == {<<>>, <<"x">>, <<"-","5">>, <<"0">>, <<"5","0">>}

MainRec(com, price) == [commodity |-> Str(com), modal_price |-> Str(price)]
MainRecords ==
  {MainRec(<<"A","b","c">>, <<"9">>), MainRec(<<"a","b","c">>, <<"8">>),
   MainRec(<<"a","b","c">>, <<"1">>), MainRec(<<"x","y">>, <<"9">>)}
MainOutcomes == {Failure} \cup {Response(b) : b \in SeqsUpTo(MainRecords, MaxBatch)}

\* the cache file a run starts with: none, or the batch of an earlier run
MainCaches == {<<>>, <<MainRec(<<"a","b","c">>, <<"8">>), MainRec(<<"a","b","c">>, <<"9">>)>>}

WeatherDown == [status |-> 500, temp |-> 0, description |-> <<>>, id |-> 0]
WeatherUp(temp, description, id) ==
  [status |-> 200, temp |-> temp, description |-> description, id |-> id]
WeatherResponses ==
  {WeatherDown,
   WeatherUp(30, <<"c","l","e","a","r"," ","s","k","y">>, 800),
   WeatherUp(41, <<"l","i","g","h","t"," ","r","a","i","n">>, 500),
   WeatherUp(1, <<"t","h","u","n","d","e","r","s","t","o","r","m">>, 212)}

NoInputs == [item |-> <<>>, state |-> <<>>, city |-> <<>>, qty |-> <<>>, cache0 |-> <<>>]
NoReport ==
  [stats |-> <<>>, predicted |-> NoPrediction, price_alerts |-> <<>>, weather_alerts |-> <<>>]

InitMain ==
  /\ pc = "item"
  /\ cache \in MainCaches
  /\ args = [NoInputs EXCEPT !.cache0 = cache]
  /\ ret = NoReport
  /\ lastLive = <<>>
  /\ log = <<>>

\* the prompt for the item and its validation
AskItem ==
  /\ pc = "item"
  /\ \E text \in ItemInputs :
       /\ args' = [args EXCEPT !.item = text]
       /\ pc' = IF item_ok(text) THEN "state" ELSE "exit"
  /\ log' = Append(log, "prompt_item")
  /\ UNCHANGED <<ret, cache, lastLive>>

AskState ==
  /\ pc = "state"
  /\ \E text \in StateInputs :
       /\ args' = [args EXCEPT !.state = text]
       /\ pc' = IF state_ok(text) THEN "city" ELSE "exit"
  /\ log' = Append(log, "prompt_state")
  /\ UNCHANGED <<ret, cache, lastLive>>

AskCity ==
  /\ pc = "city"
  /\ \E text \in CityInputs :
       /\ args' = [args EXCEPT !.city = text]
       /\ pc' = IF city_ok(text) THEN "qty" ELSE "exit"
  /\ log' = Append(log, "prompt_city")
  /\ UNCHANGED <<ret, cache, lastLive>>

AskQty ==
  /\ pc = "qty"
  /\ \E text \in QtyInputs :
       /\ args' = [args EXCEPT !.qty = text]
       /\ pc' = IF qty_ok(text) THEN "fetch" ELSE "exit"
  /\ log' = Append(log, "prompt_qty")
  /\ UNCHANGED <<ret, cache, lastLive>>

\* lines 281-333: the record fetch, the parse, the commodity filter, the
\* aggregates and the prediction; the run ends when a stage has no data
FetchRecords ==
  /\ pc = "fetch"
  /\ \E outcome \in MainOutcomes :
       LET item_clean == Lower(Strip(args.item))
           f == smart_fetch_records(item_clean, outcome, cache)
           raw_records == f.result
           parsed == parse_price_records(raw_records)
           parsed_good ==
             SelectSeq(parsed, LAMBDA p : Contains(Lower(Strip(p.commodity)), item_clean))
           agg == compute_state_aggregates(parsed_good)
       IN  /\ cache' = f.cache
           /\ lastLive' = IF outcome.ok /\ outcome.records # <<>>
                          THEN outcome.records ELSE lastLive
           /\ log' = log \o <<"request_records">>
                         \o (IF f.wrote THEN <<"cache_write">> ELSE <<>>)
           /\ IF raw_records = <<>> \/ parsed = <<>> \/ parsed_good = <<>>
                 \/ DOMAIN agg.stats = {}
              THEN pc' = "exit" /\ ret' = ret
              ELSE /\ pc' = "weather"
                   /\ ret' = [ret EXCEPT
                                !.stats = agg.stats,
                                !.predicted = simple_trend_predict(parsed_good, DefaultDaysBack)]
  /\ UNCHANGED args

\* lines 336-347: the weather fetch, the weather alerts and the price alert
FetchWeather ==
  /\ pc = "weather"
  /\ \E response \in WeatherResponses :
       LET weather == fetch_weather(Title(Strip(args.city)), response)
       IN  ret' = [ret EXCEPT
                     !.weather_alerts = check_weather_alerts(weather),
                     !.price_alerts = price_alerts(ret.predicted, ret.stats.avg)]
  /\ log' = Append(log, "request_weather")
  /\ pc' = "exit"
  /\ UNCHANGED <<args, cache, lastLive>>

NextMain == AskItem \/ AskState \/ AskCity \/ AskQty \/ FetchRecords \/ FetchWeather

SpecMain == InitMain /\ [][NextMain]_vars

\* C6: a price alert is emitted whenever a prediction exists (a prediction
\* clamped to 0 included) and its relative change from the current average
\* exceeds 8% in either direction: exactly one, RISE for a positive change
\* and DROP for a negative one; none without a prediction or below 8%
C6_AlertWheneverChangeExceeds ==
  (pc = "exit" /\ InList("request_weather", log) /\ ret.stats.avg[1] > 0) =>
    LET avg == ret.stats.avg
        exists == ret.predicted.kind = "value"
        change == RSub(ret.predicted.val, avg)
        exceeds == RLt(RMul(Rat(AlertThreshold), avg), RMul(Rat(100), RAbs(change)))
        below == RLt(RMul(Rat(100), RAbs(change)), RMul(Rat(AlertThreshold), avg))
    IN  /\ (exists /\ exceeds) =>
             /\ Len(ret.price_alerts) = 1
             /\ ret.price_alerts[1].dir = IF change[1] > 0 THEN "RISE" ELSE "DROP"
        /\ (~exists \/ below) => ret.price_alerts = <<>>

\* the inputs, as the run must find them
ValidItem(text) == Len(Strip(text)) >= 3
ValidState(text) == \E name \in VALID_STATES : Title(Strip(text)) = name
ValidCity(text) == Len(Strip(text)) > 0
ValidQty(text) == ParseFloat(text).ok /\ ParseFloat(text).val > 0

RunOrder ==
  <<"prompt_item", "prompt_state", "prompt_city", "prompt_qty",
    "request_records", "request_weather">>

IsToken(q, f) ==
  /\ q # <<>>
  /\ \A i \in 1..Len(q) : ~IsSpace(q[i])
  /\ \E i \in 1..Len(f) :
       LET j == i + Len(q) - 1
       IN  /\ j <= Len(f)
           /\ SubSeq(f, i, j) = q
           /\ (i = 1 \/ IsSpace(f[i-1]))
           /\ (j = Len(f) \/ IsSpace(f[j+1]))

\* query equals field, is a token of it, or is a prefix of it; never an empty field
Matches(q, f) == f # <<>> /\ (q = f \/ IsToken(q, f) \/ StartsWith(f, q))

\* the text of a record's commodity field: "commodity", else "commodity_name", else ""
FieldText(r) ==
  IF "commodity" \in DOMAIN r /\ r["commodity"].t = "str" /\ r["commodity"].s # <<>>
  THEN r["commodity"].s
  ELSE IF "commodity_name" \in DOMAIN r /\ r["commodity_name"].t = "str"
  THEN r["commodity_name"].s
  ELSE <<>>

\* a record's commodity matches the item, both trimmed and lower-cased
RecordMatches(item, r) == Matches(Lower(Strip(item)), Lower(Strip(FieldText(r))))

ApiRecords == IF args.outcome.ok THEN args.outcome.records ELSE <<>>
MatchingOf(item, recs) == SelectSeq(recs, LAMBDA r : RecordMatches(item, r))

\* C1: the cache is read iff the live call returned no records; a non-empty
\* live batch without a match gives the empty result and no cache read; an
\* empty live call gives exactly the matching records of the cache
C1_CacheIffLiveEmpty ==
  pc = "fetched" =>
    /\ ret.cacheRead <=> (ApiRecords = <<>>)
    /\ (ApiRecords # <<>> /\ MatchingOf(args.item, ApiRecords) = <<>>)
         => (ret.result = <<>> /\ ~ret.cacheRead)
    /\ ApiRecords = <<>> => ret.result = MatchingOf(args.item, args.cacheBefore)

\* the live call answered without a match while the cache held a match
C1_Witness ==
  /\ pc = "fetched"
  /\ ApiRecords # <<>>
  /\ MatchingOf(args.item, ApiRecords) = <<>>
  /\ MatchingOf(args.item, args.cacheBefore) # <<>>
  /\ ret.result = <<>>

C10_ResultMatchesItem ==
  pc = "fetched" =>
    \A i \in 1..Len(ret.result) :
      /\ Strip(FieldText(ret.result[i])) # <<>>
      /\ RecordMatches(args.item, ret.result[i])

\* the cache held a record of another commodity and the fallback returned
\* only the matching ones
C10_Witness ==
  /\ pc = "fetched"
  /\ ret.cacheRead
  /\ ret.result # <<>>
  /\ Len(ret.result) < Len(cache)

====
